---- MODULE Spec2Model ----
(***************************************************************************)
(* Tezos chain adapter of the gateway: the controllers poll, balances,     *)
(* allowances and approve of src/chains/tezos/tezos.controllers.ts, each   *)
(* modelled as one asynchronous call against a chain client (Tezosish).    *)
(* Every await of a chain-client call is one step of the call; the         *)
(* synchronous code between two awaits belongs to the step that resumes.   *)
(***************************************************************************)
EXTENDS Integers, Sequences, FiniteSets, TLC

\* ---------------------------------------------------------------- bounds
\* Most operations a mempool snapshot holds, over its five partitions.
MaxPending == 3
\* Longest requested tokenSymbols sequence.
MaxSymbols == 3

\* ------------------------------------------------------------ value sets
\* JavaScript's null and undefined, as records so that they compare with
\* every other record of the model.
Null == [kind |-> "null"]
Undefined == [kind |-> "undefined"]

Hashes == {"h1", "h2"}
PartitionNames == {"applied", "branch_delayed", "branch_refused", "refused", "unprocessed"}

RECURSIVE SeqsUpTo(_, _)
\* All sequences over S of length at most n.
SeqsUpTo(S, n) ==
    IF n = 0 THEN {<<>>}
    ELSE LET shorter == SeqsUpTo(S, n - 1)
         IN  shorter \cup {Append(s, x) : s \in {t \in shorter : Len(t) = n - 1}, x \in S}

\* A mempool entry: its hash and its operation contents.  The contents of
\* an entry are identified by where the entry sits, so two entries of one
\* partition with the same hash still carry different contents.
Entry(part, i, h) ==
    [hash |-> h, contents |-> [kind |-> "contents", partition |-> part, index |-> i]]

\* A partition list holding the hashes hs, in order.
PartitionOf(part, hs) == [i \in 1..Len(hs) |-> Entry(part, i, hs[i])]

\* The hashes a node classified into partition part, in their order of
\* arrival, when arrivals lists every pending operation as <<partition, hash>>.
HashesIn(part, arrivals) ==
    LET mine == SelectSeq(arrivals, LAMBDA a : a[1] = part)
    IN  [i \in 1..Len(mine) |-> mine[i][2]]

\* The mempool snapshots getPendingTransactions can return: nothing keeps
\* a hash from sitting in several partitions, or twice in one.
Mempools ==
    {[p \in PartitionNames |-> PartitionOf(p, HashesIn(p, arrivals))] :
        arrivals \in SeqsUpTo(PartitionNames \X Hashes, MaxPending)}

\* The outcome of a chain-client call whose promise rejects, and the error
\* the rejection carries.
Rejected == [kind |-> "rejected"]
ClientError(call) == [kind |-> "ClientError", call |-> call]

\* The finalized operation getTransaction returns for a hash it finds.
FinalizedTx(h) == [kind |-> "operation", hash |-> h]

VARIABLES
    op,            \* the controller being called
    pc,            \* the call's position: the await it is suspended at, or "done"
    req,           \* the request record
    mempool,       \* chain client: the node's mempool, by partition
    finalized,     \* chain client: hashes of the operations in the finalized chain
    blockHeight,   \* chain client: the head's height
    currentBlock,  \* poll: const currentBlock
    pendingTxs,    \* poll: const pendingTxs (the snapshot)
    txStatus,      \* poll: let txStatus
    txData,        \* poll: let txData
    registry,      \* chain client: the token registry behind getTokenForSymbol
    tokens,        \* balances, allowances: const tokens
    balances,      \* balances: const balances
    approvals,     \* allowances: const approvals
    pending,       \* balances, allowances: the symbols whose fetch is outstanding
    wallet,        \* approve: let wallet
    fullToken,     \* approve: const fullToken
    amountBigNumber,   \* approve: const amountBigNumber
    contract,      \* approve: const contract
    approvalOperation, \* approve: let approvalOperation
    calls,         \* the chain-client calls of the call so far, in order
    response,      \* the response record returned, or Null
    fault          \* the error thrown to the caller, or Null

\* The chain as the client sees it, the locals of poll, the locals of the
\* two aggregations, the locals of approve.
chainVars == <<mempool, finalized, blockHeight>>
pollVars == <<currentBlock, pendingTxs, txStatus, txData>>
aggVars == <<registry, tokens, balances, approvals, pending>>
approveVars == <<wallet, fullToken, amountBigNumber, contract, approvalOperation>>

vars == <<op, pc, req, chainVars, pollVars, aggVars, approveVars, calls, response, fault>>

\* ------------------------------------------------------------------ poll
\* Array.prototype.find with (tx) => tx.hash === hash: the first entry of
\* the list whose hash is the given one, undefined when there is none.
Find(list, hash) ==
    LET hits == {i \in 1..Len(list) : list[i].hash = hash}
    IN  IF hits = {} THEN Undefined
        ELSE list[CHOOSE i \in hits : \A j \in hits : i <= j]

\* Mutant of Classify: branch_delayed is tested before applied.
ClassifyDelayedFirst(snapshot, hash) ==
    LET appliedTx == Find(snapshot.applied, hash)
    IN  IF Find(snapshot.branch_delayed, hash) # Undefined
            THEN [txStatus |-> 2, txData |-> Null, lookup |-> FALSE]
        ELSE IF appliedTx # Undefined
            THEN [txStatus |-> 1, txData |-> appliedTx.contents, lookup |-> FALSE]
        ELSE IF Find(snapshot.branch_refused, hash) # Undefined
            THEN [txStatus |-> 3, txData |-> Null, lookup |-> FALSE]
        ELSE IF Find(snapshot.refused, hash) # Undefined
            THEN [txStatus |-> 4, txData |-> Null, lookup |-> FALSE]
        ELSE IF Find(snapshot.unprocessed, hash) # Undefined
            THEN [txStatus |-> 5, txData |-> Null, lookup |-> FALSE]
        ELSE [txStatus |-> -1, txData |-> Null, lookup |-> TRUE]

\* Mutant of Classify: refused is tested before branch_refused.
ClassifyRefusedFirst(snapshot, hash) ==
    LET appliedTx == Find(snapshot.applied, hash)
    IN  IF appliedTx # Undefined
            THEN [txStatus |-> 1, txData |-> appliedTx.contents, lookup |-> FALSE]
        ELSE IF Find(snapshot.branch_delayed, hash) # Undefined
            THEN [txStatus |-> 2, txData |-> Null, lookup |-> FALSE]
        ELSE IF Find(snapshot.refused, hash) # Undefined
            THEN [txStatus |-> 4, txData |-> Null, lookup |-> FALSE]
        ELSE IF Find(snapshot.branch_refused, hash) # Undefined
            THEN [txStatus |-> 3, txData |-> Null, lookup |-> FALSE]
        ELSE IF Find(snapshot.unprocessed, hash) # Undefined
            THEN [txStatus |-> 5, txData |-> Null, lookup |-> FALSE]
        ELSE [txStatus |-> -1, txData |-> Null, lookup |-> TRUE]

\* The if / else-if chain of poll over a snapshot: the status and data it
\* assigns, and whether it falls through to the finalized lookup.
\* Mutant of Classify: the unprocessed partition is not tested.
ClassifyNoUnprocessed(snapshot, hash) ==
    LET appliedTx == Find(snapshot.applied, hash)
    IN  IF appliedTx # Undefined
            THEN [txStatus |-> 1, txData |-> appliedTx.contents, lookup |-> FALSE]
        ELSE IF Find(snapshot.branch_delayed, hash) # Undefined
            THEN [txStatus |-> 2, txData |-> Null, lookup |-> FALSE]
        ELSE IF Find(snapshot.branch_refused, hash) # Undefined
            THEN [txStatus |-> 3, txData |-> Null, lookup |-> FALSE]
        ELSE IF Find(snapshot.refused, hash) # Undefined
            THEN [txStatus |-> 4, txData |-> Null, lookup |-> FALSE]
        ELSE [txStatus |-> -1, txData |-> Null, lookup |-> TRUE]

Classify(snapshot, hash) ==
    LET appliedTx == Find(snapshot.applied, hash)
    IN  IF appliedTx # Undefined
            THEN [txStatus |-> 1, txData |-> appliedTx.contents, lookup |-> FALSE]
        ELSE IF Find(snapshot.branch_delayed, hash) # Undefined
            THEN [txStatus |-> 2, txData |-> Null, lookup |-> FALSE]
        ELSE IF Find(snapshot.branch_refused, hash) # Undefined
            THEN [txStatus |-> 3, txData |-> Null, lookup |-> FALSE]
        ELSE IF Find(snapshot.refused, hash) # Undefined
            THEN [txStatus |-> 4, txData |-> Null, lookup |-> FALSE]
        ELSE IF Find(snapshot.unprocessed, hash) # Undefined
            THEN [txStatus |-> 5, txData |-> Null, lookup |-> FALSE]
        ELSE [txStatus |-> -1, txData |-> Null, lookup |-> TRUE]

\* tezosish.getTransaction(hash): the finalized operation, or null.
GetTransaction(hash) == IF hash \in finalized THEN FinalizedTx(hash) ELSE Null

InitPoll ==
    /\ op = "poll"
    /\ pc = "getCurrentBlockNumber"
    /\ req \in [txHash : Hashes]
    /\ mempool \in Mempools
    /\ finalized \in SUBSET Hashes
    /\ blockHeight \in {7}
    /\ currentBlock = Null
    /\ pendingTxs = Null
    /\ txStatus = 0          \* not declared yet: poll assigns -1 after its first await
    /\ txData = Null
    /\ registry = Null /\ tokens = Null /\ balances = Null /\ approvals = Null
    /\ pending = {}
    /\ wallet = Null /\ fullToken = Null /\ amountBigNumber = Null /\ contract = Null
    /\ approvalOperation = Null
    /\ calls = <<>>
    /\ response = Null
    /\ fault = Null

\* const currentBlock = await tezosish.getCurrentBlockNumber();
PollGetCurrentBlockNumber ==
    /\ op = "poll" /\ pc = "getCurrentBlockNumber"
    /\ currentBlock' = [kind |-> "number", value |-> blockHeight]
    /\ calls' = Append(calls, [call |-> "getCurrentBlockNumber",
                                result |-> [kind |-> "number", value |-> blockHeight]])
    /\ pc' = "getPendingTransactions"
    /\ UNCHANGED <<op, req, chainVars, approveVars, aggVars, pendingTxs, txStatus,
                   txData, response, fault>>

\* Mutant of PollGetPendingTransactions: the finalized chain is looked up
\* whatever the snapshot holds.
PollGetPendingTransactionsAlwaysLookup ==
    /\ op = "poll" /\ pc = "getPendingTransactions"
    /\ pendingTxs' = mempool
    /\ LET c == Classify(mempool, req.txHash)
       IN  /\ txStatus' = c.txStatus
           /\ txData' = c.txData
           /\ pc' = "getTransaction"
    /\ calls' = Append(calls, [call |-> "getPendingTransactions", result |-> mempool])
    /\ UNCHANGED <<op, req, chainVars, approveVars, aggVars, currentBlock, response,
                   fault>>

\* let txStatus = -1; let txData = null;
\* const pendingTxs = await tezosish.getPendingTransactions();
\* followed by the if / else-if chain, up to the await of getTransaction.
PollGetPendingTransactions ==
    /\ op = "poll" /\ pc = "getPendingTransactions"
    /\ pendingTxs' = mempool
    /\ LET c == Classify(mempool, req.txHash)
       IN  /\ txStatus' = c.txStatus
           /\ txData' = c.txData
           /\ pc' = IF c.lookup THEN "getTransaction" ELSE "return"
    /\ calls' = Append(calls, [call |-> "getPendingTransactions", result |-> mempool])
    /\ UNCHANGED <<op, req, chainVars, approveVars, aggVars, currentBlock, response,
                   fault>>

\* Mutant of PollGetTransaction: a found operation sets the status and
\* leaves txData null.
PollGetTransactionNoData ==
    /\ op = "poll" /\ pc = "getTransaction"
    /\ txStatus' = IF GetTransaction(req.txHash) # Null THEN 1 ELSE txStatus
    /\ calls' = Append(calls, [call |-> "getTransaction",
                                result |-> GetTransaction(req.txHash)])
    /\ pc' = "return"
    /\ UNCHANGED <<op, req, chainVars, approveVars, aggVars, currentBlock, pendingTxs,
                   txData, response, fault>>

\* const tx = await tezosish.getTransaction(req.txHash);
\* if (tx) { txStatus = 1; txData = tx; }
PollGetTransaction ==
    /\ op = "poll" /\ pc = "getTransaction"
    /\ LET tx == GetTransaction(req.txHash)
       IN  /\ txStatus' = IF tx # Null THEN 1 ELSE txStatus
           /\ txData' = IF tx # Null THEN tx ELSE txData
    /\ calls' = Append(calls, [call |-> "getTransaction",
                                result |-> GetTransaction(req.txHash)])
    /\ pc' = "return"
    /\ UNCHANGED <<op, req, chainVars, approveVars, aggVars, currentBlock, pendingTxs,
                   response, fault>>

\* return { network, currentBlock, timestamp, txHash, txStatus, txData };
PollReturn ==
    /\ op = "poll" /\ pc = "return"
    /\ response' = [kind |-> "PollResponse", currentBlock |-> currentBlock,
                    txHash |-> req.txHash, txStatus |-> txStatus, txData |-> txData]
    /\ pc' = "done"
    /\ UNCHANGED <<op, req, chainVars, approveVars, aggVars, pollVars, calls, fault>>

\* An awaited chain-client call of poll rejects: poll has no try/catch, the
\* rejection is thrown to the caller and nothing is returned.
PollClientRejects ==
    /\ op = "poll"
    /\ pc \in {"getCurrentBlockNumber", "getPendingTransactions", "getTransaction"}
    /\ calls' = Append(calls, [call |-> pc, result |-> Rejected])
    /\ fault' = ClientError(pc)
    /\ pc' = "done"
    /\ UNCHANGED <<op, req, chainVars, approveVars, aggVars, pollVars, response>>

NextPoll ==
    \/ PollGetCurrentBlockNumber
    \/ PollGetPendingTransactions
    \/ PollGetTransaction
    \/ PollReturn
    \/ PollClientRejects

SpecPoll == InitPoll /\ [][NextPoll]_vars

\* ------------------------------------------------------- claims on poll
\* The hash of the request sits in partition part of the snapshot poll took.
InSnapshot(part) == \E i \in DOMAIN pendingTxs[part] : pendingTxs[part][i].hash = req.txHash

\* poll has returned a response record.
PollReturned == op = "poll" /\ pc = "done" /\ response # Null

\* The last chain-client call poll made, once it made one.
LastCall == calls[Len(calls)]

\* C1: poll priority invariant.  Whenever the requested hash appears in the
\* applied partition of the snapshot, the response has txStatus 1 and a
\* non-null txData, the contents of the first applied entry with that hash,
\* whatever else (other partitions, finalized chain) holds the hash.
C1_AppliedPriority ==
    (PollReturned /\ InSnapshot("applied")) =>
        /\ response.txStatus = 1
        /\ response.txData # Null
        /\ \E i \in DOMAIN pendingTxs.applied :
              /\ pendingTxs.applied[i].hash = req.txHash
              /\ \A j \in 1..(i - 1) : pendingTxs.applied[j].hash # req.txHash
              /\ response.txData = pendingTxs.applied[i].contents

\* C1 witness: poll returned for a hash that is in applied (twice), in
\* branch_delayed and in the finalized chain at once.
C1_Witness ==
    /\ PollReturned
    /\ Len(pendingTxs.applied) = 2
    /\ \A i \in 1..2 : pendingTxs.applied[i].hash = req.txHash
    /\ InSnapshot("branch_delayed")
    /\ req.txHash \in finalized
    /\ response.txStatus = 1

\* The status code of the first of the four non-applied partitions, in
\* the order branch_delayed, branch_refused, refused, unprocessed, that
\* holds the requested hash; 0 when none does.
FirstPendingCode ==
    LET order == <<"branch_delayed", "branch_refused", "refused", "unprocessed">>
        hits == {k \in 1..4 : InSnapshot(order[k])}
    IN  IF hits = {} THEN 0 ELSE 1 + (CHOOSE k \in hits : \A m \in hits : k <= m)

\* C2: poll first-match ordering.  With the hash absent from applied and
\* present in at least one other partition, txStatus is the code of the
\* first partition holding it in the order branch_delayed (2),
\* branch_refused (3), refused (4), unprocessed (5), and txData is null.
C2_FirstMatchOrdering ==
    (PollReturned /\ ~InSnapshot("applied") /\ FirstPendingCode # 0) =>
        /\ response.txStatus = FirstPendingCode
        /\ response.txData = Null

\* C2 witness: the hash is in branch_refused and in unprocessed (and in the
\* finalized chain), not in applied or branch_delayed: status 3, no data.
C2_Witness ==
    /\ PollReturned
    /\ ~InSnapshot("applied") /\ ~InSnapshot("branch_delayed")
    /\ InSnapshot("branch_refused") /\ InSnapshot("unprocessed")
    /\ req.txHash \in finalized
    /\ response.txStatus = 3 /\ response.txData = Null

\* C3: poll fallback invariant.  Once poll has finished for a hash that is
\* in none of the five partitions of its snapshot and the finalized lookup
\* has answered: a found operation gives txStatus 1 with that operation as
\* txData; nothing found gives txStatus -1 with null txData, returned as a
\* response and not thrown.
C3_Fallback ==
    (/\ op = "poll" /\ pc = "done" /\ pendingTxs # Null
     /\ \A p \in PartitionNames : ~InSnapshot(p)
     /\ LastCall.result # Rejected) =>
        /\ fault = Null /\ response # Null
        /\ LastCall.call = "getTransaction"
        /\ IF req.txHash \in finalized
              THEN /\ response.txStatus = 1
                   /\ response.txData = FinalizedTx(req.txHash)
                   /\ response.txData # Null
              ELSE /\ response.txStatus = -1
                   /\ response.txData = Null

\* C3 witness: the hash is nowhere, while another hash is both applied and
\* finalized; poll returned -1.
C3_Witness ==
    /\ PollReturned
    /\ \A p \in PartitionNames : ~InSnapshot(p)
    /\ req.txHash \notin finalized
    /\ pendingTxs.applied # <<>> /\ finalized # {}
    /\ response.txStatus = -1 /\ response.txData = Null /\ fault = Null

\* ------------------------------------------------- the token registry
Symbols == {"XTZ", "A", "B"}
\* tezos.nativeTokenSymbol
nativeTokenSymbol == "XTZ"
Standards == {"fa1.2", "fa2", "other"}
Addresses == {"tz1owner", "tz1other"}

\* A JavaScript number.
Num(n) == [kind |-> "number", value |-> n]

\* The deployed contract of the token registered under symbol s.
ContractOf(s) == [kind |-> "contract", of |-> s]

\* What a registry entry leaves open besides its address: the optional
\* tokenId, decimals, and the standard.
TokenShapes(decimals) ==
    [tokenId : {Undefined, Num(0)}, decimals : decimals, standard : Standards]

\* TokenInfo: address, optional tokenId, decimals, standard.
TokenInfo(s, shape) ==
    [address |-> ContractOf(s), tokenId |-> shape.tokenId, decimals |-> shape.decimals,
     standard |-> shape.standard]

\* The registries a chain client can hold: every symbol is unknown
\* (getTokenForSymbol gives undefined) or has a TokenInfo; the native symbol
\* may have an entry as well.  The tokens' decimals are among `decimals`.
Registries(decimals) ==
    {[s \in Symbols |-> IF known[s] = Undefined THEN Undefined ELSE TokenInfo(s, known[s])] :
        known \in [Symbols -> {Undefined} \cup TokenShapes(decimals)]}

\* The amounts, in chain units, a balance or allowance fetch may return.
Amounts == {0, 2500000}

\* The TokenValue a fetch returns: an integer amount with its decimals.
TokenValue(n, d) == [kind |-> "TokenValue", value |-> n, decimals |-> d]

\* tokenValueToString of services/base: the amount divided by 10^decimals,
\* as a decimal string with `decimals` digits after the point; the string
\* is kept as its integer part, its fraction digits and their number.
TokenValueToString(tv) ==
    [kind |-> "string", int |-> tv.value \div (10 ^ tv.decimals),
     frac |-> tv.value % (10 ^ tv.decimals), digits |-> tv.decimals]

\* The string literal '0.000000'.
ZeroString == [kind |-> "string", int |-> 0, frac |-> 0, digits |-> 6]

\* An object with no keys, and obj[k] = v.
EmptyObject == [k \in {} |-> Null]
Put(obj, k, v) == [x \in DOMAIN obj \cup {k} |-> IF x = k THEN v ELSE obj[x]]

\* Array.prototype.includes.
Includes(list, x) == \E i \in DOMAIN list : list[i] = x

\* tezos.getTokenForSymbol(symbol)
GetTokenForSymbol(symbol) == registry[symbol]

RECURSIVE GetTokenSymbolsToTokens(_)
\* getTokenSymbolsToTokens: the loop over tokenSymbols, from its first
\* element; a symbol found in the registry is assigned into tokens, whose
\* keys keep the order of first assignment (Object.keys).
GetTokenSymbolsToTokens(tokenSymbols) ==
    IF tokenSymbols = <<>> THEN [keys |-> <<>>, info |-> EmptyObject]
    ELSE LET n == Len(tokenSymbols)
             before == GetTokenSymbolsToTokens(SubSeq(tokenSymbols, 1, n - 1))
             symbol == tokenSymbols[n]
             token == GetTokenForSymbol(symbol)
         IN  IF token # Undefined
                 THEN [keys |-> IF Includes(before.keys, symbol) THEN before.keys
                                ELSE Append(before.keys, symbol),
                       info |-> Put(before.info, symbol, token)]
                 ELSE before

\* ----------------------------------------------- balances, allowances
\* One entry of the call log: a chain-client call being issued, or settling
\* with a result (Rejected when its promise rejects).
Issue(call, symbol, args) ==
    [phase |-> "issue", call |-> call, symbol |-> symbol, args |-> args, result |-> Null]
Settle(call, symbol, result) ==
    [phase |-> "settle", call |-> call, symbol |-> symbol, args |-> Null, result |-> result]

\* Mutant of BalanceFetches: the test of tokenId is missing.
BalanceFetchesAnyTokenId(tok) ==
    SelectSeq(tok.keys, LAMBDA symbol :
        /\ tok.info[symbol] # Undefined
        /\ symbol # nativeTokenSymbol)

\* Mutant of BalanceFetches: the native symbol is fetched as a token too.
BalanceFetchesWithNative(tok) ==
    SelectSeq(tok.keys, LAMBDA symbol :
        /\ tok.info[symbol] # Undefined
        /\ tok.info[symbol].tokenId # Undefined)

\* balances, lines 72-76: the keys of tokens whose callback reaches the
\* await of getTokenBalance, in the order map visits them.
BalanceFetches(tok) ==
    SelectSeq(tok.keys, LAMBDA symbol :
        /\ tok.info[symbol] # Undefined
        /\ symbol # nativeTokenSymbol
        /\ tok.info[symbol].tokenId # Undefined)

\* The getTokenBalance calls the map of balances issues, in order.
BalanceIssues(tok) ==
    LET fetches == BalanceFetches(tok)
    IN  [i \in 1..Len(fetches) |->
            Issue("getTokenBalance", fetches[i],
                  [address |-> tok.info[fetches[i]].address, owner |-> req.address,
                   tokenId |-> tok.info[fetches[i]].tokenId,
                   decimals |-> tok.info[fetches[i]].decimals])]

Range(list) == {list[i] : i \in DOMAIN list}

InitBalances ==
    /\ op = "balances"
    /\ pc = "start"
    /\ req \in [address : {"tz1owner"}, tokenSymbols : SeqsUpTo(Symbols, MaxSymbols)]
    /\ registry \in Registries({6})
    /\ tokens = Null /\ balances = Null /\ approvals = Null /\ pending = {}
    /\ mempool = Null /\ finalized = {} /\ blockHeight = 0
    /\ currentBlock = Null /\ pendingTxs = Null /\ txStatus = 0 /\ txData = Null
    /\ wallet = Null /\ fullToken = Null /\ amountBigNumber = Null /\ contract = Null
    /\ approvalOperation = Null
    /\ calls = <<>>
    /\ response = Null
    /\ fault = Null

\* balances up to its first await: tokens and balances are built; with the
\* native symbol among req.tokenSymbols the call suspends at
\* getNativeBalance, otherwise the map issues every token fetch and the
\* call suspends at Promise.all.
BalancesBegin ==
    /\ op = "balances" /\ pc = "start"
    /\ LET tok == GetTokenSymbolsToTokens(req.tokenSymbols)
       IN  /\ tokens' = tok
           /\ balances' = EmptyObject
           /\ IF Includes(req.tokenSymbols, nativeTokenSymbol)
                THEN /\ calls' = Append(calls, Issue("getNativeBalance", nativeTokenSymbol,
                                                     [owner |-> req.address]))
                     /\ pending' = {}
                     /\ pc' = "getNativeBalance"
                ELSE /\ calls' = calls \o BalanceIssues(tok)
                     /\ pending' = Range(BalanceFetches(tok))
                     /\ pc' = "Promise.all"
    /\ UNCHANGED <<op, req, chainVars, approveVars, pollVars, registry, approvals,
                   response, fault>>

\* await tezos.getNativeBalance(req.address) resolves: the native balance
\* is stored, then the map issues every token fetch.
BalancesNativeResolves ==
    /\ op = "balances" /\ pc = "getNativeBalance"
    /\ \E n \in Amounts :
        LET value == TokenValue(n, 6)
        IN  /\ balances' = Put(balances, nativeTokenSymbol, TokenValueToString(value))
            /\ calls' = Append(calls, Settle("getNativeBalance", nativeTokenSymbol, value))
                        \o BalanceIssues(tokens)
    /\ pending' = Range(BalanceFetches(tokens))
    /\ pc' = "Promise.all"
    /\ UNCHANGED <<op, req, chainVars, approveVars, pollVars, registry, tokens,
                   approvals, response, fault>>

\* Mutant of BalancesTokenResolves: the balances are stored in the order
\* the fetches complete, each under the first fetched key still unwritten.
BalancesTokenResolvesByArrival ==
    /\ op = "balances" /\ pc = "Promise.all"
    /\ \E symbol \in pending, n \in Amounts :
        LET balance == TokenValue(n, tokens.info[symbol].decimals)
            unwritten == SelectSeq(BalanceFetches(tokens),
                                   LAMBDA k : k \notin DOMAIN balances)
        IN  /\ balances' = Put(balances, unwritten[1], TokenValueToString(balance))
            /\ calls' = Append(calls, Settle("getTokenBalance", symbol, balance))
            /\ pending' = pending \ {symbol}
    /\ UNCHANGED <<op, pc, req, chainVars, approveVars, pollVars, registry, tokens,
                   approvals, response, fault>>

\* A getTokenBalance resolves: its callback stores the balance.
BalancesTokenResolves ==
    /\ op = "balances" /\ pc = "Promise.all"
    /\ \E symbol \in pending, n \in Amounts :
        LET balance == TokenValue(n, tokens.info[symbol].decimals)
        IN  /\ balances' = Put(balances, symbol, TokenValueToString(balance))
            /\ calls' = Append(calls, Settle("getTokenBalance", symbol, balance))
            /\ pending' = pending \ {symbol}
    /\ UNCHANGED <<op, pc, req, chainVars, approveVars, pollVars, registry, tokens,
                   approvals, response, fault>>

\* Mutant of BalancesFetchRejects: a rejecting token fetch is caught in its
\* callback and the token is left out.
BalancesFetchRejectsIsolated ==
    /\ op = "balances"
    /\ \/ /\ pc = "getNativeBalance"
          /\ calls' = Append(calls, Settle("getNativeBalance", nativeTokenSymbol, Rejected))
          /\ fault' = ClientError("getNativeBalance")
          /\ pending' = pending
          /\ pc' = "done"
       \/ /\ pc = "Promise.all"
          /\ \E symbol \in pending :
                /\ calls' = Append(calls, Settle("getTokenBalance", symbol, Rejected))
                /\ pending' = pending \ {symbol}
          /\ fault' = fault
          /\ pc' = pc
    /\ UNCHANGED <<op, req, chainVars, approveVars, pollVars, registry, tokens,
                   balances, approvals, response>>

\* A fetch of balances rejects (the awaited native fetch, or a token fetch
\* under Promise.all): nothing catches it, the rejection is thrown to the
\* caller.
BalancesFetchRejects ==
    /\ op = "balances"
    /\ \/ /\ pc = "getNativeBalance"
          /\ calls' = Append(calls, Settle("getNativeBalance", nativeTokenSymbol, Rejected))
          /\ fault' = ClientError("getNativeBalance")
          /\ pending' = pending
       \/ /\ pc = "Promise.all"
          /\ \E symbol \in pending :
                /\ calls' = Append(calls, Settle("getTokenBalance", symbol, Rejected))
                /\ pending' = pending \ {symbol}
          /\ fault' = ClientError("getTokenBalance")
    /\ pc' = "done"
    /\ UNCHANGED <<op, req, chainVars, approveVars, pollVars, registry, tokens,
                   balances, approvals, response>>

\* The error of lines 90-94 and 182-186.
TokenNotSupported == [kind |-> "HttpException", status |-> 500,
                      code |-> "TOKEN_NOT_SUPPORTED_ERROR_CODE"]

\* Promise.all has resolved: an empty balances throws token-not-supported,
\* anything else is returned.
BalancesFinish ==
    /\ op = "balances" /\ pc = "Promise.all" /\ pending = {}
    /\ IF DOMAIN balances = {}
         THEN fault' = TokenNotSupported /\ response' = response
         ELSE response' = [kind |-> "BalanceResponse", balances |-> balances]
              /\ fault' = fault
    /\ pc' = "done"
    /\ UNCHANGED <<op, req, chainVars, approveVars, pollVars, aggVars, calls>>

NextBalances ==
    \/ BalancesBegin
    \/ BalancesNativeResolves
    \/ BalancesTokenResolves
    \/ BalancesFetchRejects
    \/ BalancesFinish

SpecBalances == InitBalances /\ [][NextBalances]_vars

\* ------------------------------------------------------------ allowances
\* allowances, lines 163-177, for the keys of tokens from the k-th on: the
\* map visits them in order; an 'fa1.2' token's callback stores '0.000000'
\* at once, any other token's callback issues getTokenAllowance and
\* suspends.  Gives the approvals written, the calls issued and the symbols
\* left outstanding.
RECURSIVE AllowancesMapSwapped(_, _, _)
\* Mutant of AllowancesMap: the fixed zero goes to the 'fa2' tokens and the
\* others are queried.
AllowancesMapSwapped(tok, k, acc) ==
    IF k > Len(tok.keys) THEN acc
    ELSE LET symbol == tok.keys[k]
         IN  IF tok.info[symbol].standard = "fa2"
                 THEN AllowancesMapSwapped(tok, k + 1,
                        [acc EXCEPT !.approvals = Put(@, symbol, ZeroString)])
                 ELSE AllowancesMapSwapped(tok, k + 1,
                        [acc EXCEPT
                           !.issued = Append(@,
                              Issue("getTokenAllowance", symbol,
                                    [address |-> tok.info[symbol].address,
                                     owner |-> req.address, spender |-> req.spender,
                                     standard |-> "fa2",
                                     tokenId |-> tok.info[symbol].tokenId,
                                     decimals |-> tok.info[symbol].decimals])),
                           !.pending = @ \cup {symbol}])

RECURSIVE AllowancesMap(_, _, _)
AllowancesMap(tok, k, acc) ==
    IF k > Len(tok.keys) THEN acc
    ELSE LET symbol == tok.keys[k]
         IN  IF tok.info[symbol].standard = "fa1.2"
                 THEN AllowancesMap(tok, k + 1,
                        [acc EXCEPT !.approvals = Put(@, symbol, ZeroString)])
                 ELSE AllowancesMap(tok, k + 1,
                        [acc EXCEPT
                           !.issued = Append(@,
                              Issue("getTokenAllowance", symbol,
                                    [address |-> tok.info[symbol].address,
                                     owner |-> req.address, spender |-> req.spender,
                                     standard |-> "fa2",
                                     tokenId |-> tok.info[symbol].tokenId,
                                     decimals |-> tok.info[symbol].decimals])),
                           !.pending = @ \cup {symbol}])

InitAllowances ==
    /\ op = "allowances"
    /\ pc = "start"
    /\ req \in {[address |-> owner, spender |-> spender, tokenSymbols |-> tokenSymbols] :
                   owner \in Addresses, spender \in Addresses,
                   tokenSymbols \in SeqsUpTo(Symbols, MaxSymbols)}
    /\ req.address # req.spender
    /\ registry \in Registries({6})
    /\ tokens = Null /\ balances = Null /\ approvals = Null /\ pending = {}
    /\ mempool = Null /\ finalized = {} /\ blockHeight = 0
    /\ currentBlock = Null /\ pendingTxs = Null /\ txStatus = 0 /\ txData = Null
    /\ wallet = Null /\ fullToken = Null /\ amountBigNumber = Null /\ contract = Null
    /\ approvalOperation = Null
    /\ calls = <<>>
    /\ response = Null
    /\ fault = Null

\* allowances up to its await of Promise.all: tokens is built and the map
\* runs every callback to its first await or to its end.
AllowancesBegin ==
    /\ op = "allowances" /\ pc = "start"
    /\ LET tok == GetTokenSymbolsToTokens(req.tokenSymbols)
           m == AllowancesMap(tok, 1, [approvals |-> EmptyObject, issued |-> <<>>,
                                      pending |-> {}])
       IN  /\ tokens' = tok
           /\ approvals' = m.approvals
           /\ calls' = calls \o m.issued
           /\ pending' = m.pending
    /\ pc' = "Promise.all"
    /\ UNCHANGED <<op, req, chainVars, approveVars, pollVars, registry, balances,
                   response, fault>>

\* A getTokenAllowance resolves: its callback stores the allowance.
AllowancesTokenResolves ==
    /\ op = "allowances" /\ pc = "Promise.all"
    /\ \E symbol \in pending, n \in Amounts :
        LET allowance == TokenValue(n, tokens.info[symbol].decimals)
        IN  /\ approvals' = Put(approvals, symbol, TokenValueToString(allowance))
            /\ calls' = Append(calls, Settle("getTokenAllowance", symbol, allowance))
            /\ pending' = pending \ {symbol}
    /\ UNCHANGED <<op, pc, req, chainVars, approveVars, pollVars, registry, tokens,
                   balances, response, fault>>

\* A getTokenAllowance rejects: Promise.all rejects with it and the
\* rejection is thrown to the caller.
AllowancesFetchRejects ==
    /\ op = "allowances" /\ pc = "Promise.all"
    /\ \E symbol \in pending :
        /\ calls' = Append(calls, Settle("getTokenAllowance", symbol, Rejected))
        /\ pending' = pending \ {symbol}
    /\ fault' = ClientError("getTokenAllowance")
    /\ pc' = "done"
    /\ UNCHANGED <<op, req, chainVars, approveVars, pollVars, registry, tokens,
                   balances, approvals, response>>

\* Promise.all has resolved: an empty approvals throws token-not-supported,
\* anything else is returned with the spender.
AllowancesFinish ==
    /\ op = "allowances" /\ pc = "Promise.all" /\ pending = {}
    /\ IF DOMAIN approvals = {}
         THEN fault' = TokenNotSupported /\ response' = response
         ELSE response' = [kind |-> "AllowancesResponse", spender |-> req.spender,
                           approvals |-> approvals]
              /\ fault' = fault
    /\ pc' = "done"
    /\ UNCHANGED <<op, req, chainVars, approveVars, pollVars, aggVars, calls>>

NextAllowances ==
    \/ AllowancesBegin
    \/ AllowancesTokenResolves
    \/ AllowancesFetchRejects
    \/ AllowancesFinish

SpecAllowances == InitAllowances /\ [][NextAllowances]_vars

\* ------------------------------------- claims on balances, allowances
\* The symbol is among the requested ones; the registry knows it.
Requested(s) == \E i \in DOMAIN req.tokenSymbols : req.tokenSymbols[i] = s
Resolves(s) == registry[s] # Undefined

\* No chain-client call of the call has rejected.
NoFetchRejected == \A i \in DOMAIN calls : calls[i].result # Rejected

\* The log positions at which the given call is issued for the symbol.
IssuedFor(call, s) ==
    {i \in DOMAIN calls :
        calls[i].phase = "issue" /\ calls[i].call = call /\ calls[i].symbol = s}

\* The keys C4 expects: the native symbol when requested, and every
\* requested non-native symbol the registry resolves with a defined tokenId.
ExpectedBalanceKeys ==
    {s \in Symbols :
        /\ Requested(s)
        /\ \/ s = nativeTokenSymbol
           \/ Resolves(s) /\ registry[s].tokenId # Undefined}

\* C4: balances key set.  A response of balances carries exactly the
\* expected keys and comes with no fault; unknown symbols and tokens
\* without tokenId are left out.  When at least one key is expected and no
\* fetch rejects, the call ends with a response.
C4_BalancesKeySet ==
    (op = "balances" /\ pc = "done") =>
        /\ response # Null =>
              fault = Null /\ DOMAIN response.balances = ExpectedBalanceKeys
        /\ (ExpectedBalanceKeys # {} /\ NoFetchRejected) => response # Null

\* C4 witness: a response to three requested symbols with a duplicate,
\* where a requested symbol is registered without tokenId and gets no key
\* while another has one.
C4_Witness ==
    /\ op = "balances" /\ pc = "done" /\ response # Null
    /\ Len(req.tokenSymbols) = 3
    /\ req.tokenSymbols[1] = req.tokenSymbols[3]
    /\ \E s \in Symbols \ {nativeTokenSymbol} :
          Requested(s) /\ Resolves(s) /\ registry[s].tokenId = Undefined
          /\ s \notin DOMAIN response.balances
    /\ \E s \in Symbols \ {nativeTokenSymbol} : s \in DOMAIN response.balances

\* No requested token is of the standard 'fa1.2', whose allowance is the
\* fixed '0.000000' of C7 whatever its tokenId.
NoFixedZeroToken ==
    \A s \in Symbols : (Requested(s) /\ Resolves(s)) => registry[s].standard # "fa1.2"

\* C5: allowances key set, as claimed, on the requests that C7 does not
\* speak about.  A response of allowances has as keys exactly the requested
\* symbols that resolve with a defined tokenId, and no allowance query is
\* issued for a token whose tokenId is undefined.
C5_AllowancesKeySet ==
    (op = "allowances" /\ pc = "done" /\ response # Null /\ NoFixedZeroToken) =>
        /\ DOMAIN response.approvals =
              {s \in Symbols : Requested(s) /\ Resolves(s) /\ registry[s].tokenId # Undefined}
        /\ \A s \in Symbols :
              (Resolves(s) /\ registry[s].tokenId = Undefined) =>
                  IssuedFor("getTokenAllowance", s) = {}

\* C6: empty-result fault, as claimed, on the requests that C7 does not
\* speak about.  When no requested symbol resolves to a fetchable token (one
\* with a defined tokenId), allowances ends with the token-not-supported
\* fault and no response, after every fetch has settled; and a response
\* never carries an empty mapping.
C6_EmptyResultFault ==
    (op = "allowances" /\ pc = "done" /\ NoFixedZeroToken /\ NoFetchRejected) =>
        /\ (\A s \in Symbols :
               ~(Requested(s) /\ Resolves(s) /\ registry[s].tokenId # Undefined)) =>
              fault = TokenNotSupported /\ response = Null /\ pending = {}
        /\ response # Null => DOMAIN response.approvals # {}

\* C7: fixed-zero allowance.  From the moment the map has run, every
\* requested token of standard 'fa1.2' has the literal '0.000000' in
\* approvals (and in the response, once returned) and no getTokenAllowance
\* call is ever issued for it, whoever owner and spender are; every other
\* requested, resolved token gets exactly one getTokenAllowance call, with
\* the request's owner and spender and the token's tokenId and decimals;
\* no call is issued for anything else.
C7_FixedZeroAllowance ==
    (op = "allowances" /\ pc # "start") =>
        /\ \A s \in Symbols : (Requested(s) /\ Resolves(s)) =>
              IF registry[s].standard = "fa1.2"
                THEN /\ s \in DOMAIN approvals /\ approvals[s] = ZeroString
                     /\ IssuedFor("getTokenAllowance", s) = {}
                     /\ response # Null => response.approvals[s] = ZeroString
                ELSE /\ Cardinality(IssuedFor("getTokenAllowance", s)) = 1
                     /\ \A i \in IssuedFor("getTokenAllowance", s) :
                          /\ calls[i].args.owner = req.address
                          /\ calls[i].args.spender = req.spender
                          /\ calls[i].args.tokenId = registry[s].tokenId
                          /\ calls[i].args.decimals = registry[s].decimals
        /\ \A i \in DOMAIN calls : calls[i].phase = "issue" =>
              /\ calls[i].call = "getTokenAllowance"
              /\ Requested(calls[i].symbol) /\ Resolves(calls[i].symbol)

\* C7 witness: a response holding an 'fa1.2' token at '0.000000' next to an
\* 'fa2' token whose fetched allowance is not zero, for a spender other
\* than the owner.
C7_Witness ==
    /\ op = "allowances" /\ pc = "done" /\ response # Null
    /\ req.address # req.spender
    /\ \E s \in Symbols :
          /\ Requested(s) /\ Resolves(s) /\ registry[s].standard = "fa1.2"
          /\ response.approvals[s] = ZeroString
    /\ \E s \in Symbols :
          /\ Requested(s) /\ Resolves(s) /\ registry[s].standard = "fa2"
          /\ response.approvals[s] # ZeroString

\* --------------------------------------------------------------- approve
\* Most result entries (operationResults) a submitted operation carries.
MaxResults == 2

\* A decimal string such as "2" or "1.5": its integer part, the digits
\* after the point read as a number, and how many digits those are.
DecimalString(int, frac, digits) ==
    [kind |-> "string", int |-> int, frac |-> frac, digits |-> digits]

\* The amounts a request may carry: "2", "1.5" and "0.25".
AmountStrings == {DecimalString(2, 0, 0), DecimalString(1, 5, 1), DecimalString(0, 25, 2)}

\* An ethers BigNumber, and constants.MaxUint256 = 2^256 - 1, which is kept
\* symbolic: no smaller number of the model equals it.
BigNumber(n) == [kind |-> "BigNumber", value |-> n]
MaxUint256 == [kind |-> "BigNumber.MaxUint256"]

\* The value of constants.MaxUint256, 0xff...ff, as its 64 hexadecimal
\* digits, lowest first.
MaxUint256Hex == [i \in 1..64 |-> 15]

RECURSIVE HexSucc(_)
\* n + 1 for a number given by its hexadecimal digits, lowest first.
HexSucc(hex) ==
    IF hex = <<>> THEN <<1>>
    ELSE IF hex[1] < 15 THEN <<hex[1] + 1>> \o Tail(hex)
    ELSE <<0>> \o HexSucc(Tail(hex))

\* What a call that throws leaves instead of a value.
Throws == [kind |-> "throws"]

\* utils.parseUnits(amount, decimals): amount * 10^decimals as a BigNumber;
\* it throws when the amount has more fraction digits than decimals.
ParseUnits(amount, decimals) ==
    IF amount.digits > decimals THEN Throws
    ELSE BigNumber(amount.int * (10 ^ decimals)
                   + amount.frac * (10 ^ (decimals - amount.digits)))

\* bigNumberWithDecimalToStr of services/base.
BigNumberWithDecimalToStr(bn, decimals) ==
    IF bn = MaxUint256
        THEN [kind |-> "string", of |-> MaxUint256, digits |-> decimals]
        ELSE TokenValueToString(TokenValue(bn.value, decimals))

\* Mutant of AmountBigNumber: an omitted amount approves nothing.
AmountBigNumberZeroDefault(amount, decimals) ==
    IF amount # Undefined THEN ParseUnits(amount, decimals) ELSE BigNumber(0)

\* const amountBigNumber = amount ? parseUnits(...) : constants.MaxUint256
AmountBigNumber(amount, decimals) ==
    IF amount # Undefined THEN ParseUnits(amount, decimals) ELSE MaxUint256

\* ---- JavaScript numbers holding non-negative integers ----
\* An integer is the sequence of its decimal digits, highest first and
\* without leading zeros, so that the 53-bit precision of the number type
\* is kept at its real width.

RECURSIVE Strip(_)
\* The digits without their leading zeros.
Strip(digits) ==
    IF Len(digits) > 1 /\ digits[1] = 0 THEN Strip(Tail(digits)) ELSE digits

RECURSIVE Reverse(_)
Reverse(digits) ==
    IF digits = <<>> THEN <<>> ELSE Append(Reverse(Tail(digits)), digits[1])

RECURSIVE AddLowestFirst(_, _, _)
\* Digit-wise sum with carry of two digit sequences given lowest first.
AddLowestFirst(a, b, carry) ==
    IF a = <<>> /\ b = <<>> THEN (IF carry = 0 THEN <<>> ELSE <<carry>>)
    ELSE LET x == (IF a = <<>> THEN 0 ELSE a[1]) + (IF b = <<>> THEN 0 ELSE b[1]) + carry
         IN  <<x % 10>> \o AddLowestFirst(IF a = <<>> THEN <<>> ELSE Tail(a),
                                          IF b = <<>> THEN <<>> ELSE Tail(b),
                                          x \div 10)

\* The exact sum of two integers.
Add(a, b) == Strip(Reverse(AddLowestFirst(Reverse(a), Reverse(b), 0)))

RECURSIVE HalfFrom(_, _)
\* Long division by two, highest digit first.
HalfFrom(digits, rem) ==
    IF digits = <<>> THEN <<>>
    ELSE LET x == rem * 10 + digits[1]
         IN  <<x \div 2>> \o HalfFrom(Tail(digits), x % 2)

Half(n) == Strip(HalfFrom(n, 0))
Odd(n) == n[Len(n)] % 2 = 1

RECURSIVE LexLess(_, _)
LexLess(a, b) ==
    /\ a # <<>>
    /\ \/ a[1] < b[1]
       \/ a[1] = b[1] /\ LexLess(Tail(a), Tail(b))

\* a < b for two integers.
Less(a, b) == Len(a) < Len(b) \/ (Len(a) = Len(b) /\ LexLess(a, b))

\* 2^53: a number holds every integer up to it exactly.
TwoTo53 == <<9, 0, 0, 7, 1, 9, 9, 2, 5, 4, 7, 4, 0, 9, 9, 2>>

RECURSIVE Doubled(_, _)
\* n * 2^k
Doubled(n, k) == IF k = 0 THEN n ELSE Doubled(Add(n, n), k - 1)

RECURSIVE RoundFrom(_, _, _, _)
\* n is the integer shifted right by k bits; `round` is the last bit shifted
\* out and `sticky` tells whether any earlier one was set.
RoundFrom(n, k, round, sticky) ==
    IF Less(n, TwoTo53)
        THEN LET up == round /\ (sticky \/ Odd(n))
             IN  Doubled(IF up THEN Add(n, <<1>>) ELSE n, k)
        ELSE RoundFrom(Half(n), k + 1, Odd(n), sticky \/ round)

\* The number nearest to the integer n (ties to even): n itself up to 2^53.
ToNumber(n) == [kind |-> "number", digits |-> RoundFrom(n, 0, FALSE, FALSE)]

\* parseInt of a non-empty string of decimal digits, given as the sequence
\* of its digits.
ParseInt(digits) == ToNumber(Strip(digits))

\* x + y of two numbers.
NumberAdd(x, y) == ToNumber(Add(x.digits, y.digits))

\* String(n) of a number below 10^21: its decimal digits.
NumberToString(n) == n.digits

\* Mutant of ToTezosTransaction: the two limits are added as strings.
ToTezosTransactionConcat(hash, transaction, chainId) ==
    [hash |-> hash,
     to |-> transaction.destination,
     from |-> transaction.source,
     nonce |-> ParseInt(transaction.counter),
     gasLimit |-> transaction.gas_limit \o transaction.storage_limit,
     maxFeePerGas |-> Null,
     value |-> transaction.amount,
     chainId |-> chainId,
     data |-> [kind |-> "JSON", of |-> transaction.parameters],
     maxPriorityFeePerGas |-> Null]

\* toTezosTransaction
ToTezosTransaction(hash, transaction, chainId) ==
    [hash |-> hash,
     to |-> transaction.destination,
     from |-> transaction.source,
     nonce |-> ParseInt(transaction.counter),
     gasLimit |-> NumberToString(NumberAdd(ParseInt(transaction.gas_limit),
                                           ParseInt(transaction.storage_limit))),
     maxFeePerGas |-> Null,
     value |-> transaction.amount,
     chainId |-> chainId,
     data |-> [kind |-> "JSON", of |-> transaction.parameters],
     maxPriorityFeePerGas |-> Null]

\* The result entries the node may report for a submitted approval.
ResultEntries ==
    [source : {"tz1owner"}, destination : {"KT1"}, counter : {<<7>>, <<1, 2>>},
     gas_limit : {<<1, 5, 0, 0>>}, storage_limit : {<<6, 7>>}, amount : {<<0>>},
     parameters : {[kind |-> "parameters"]}]

\* The chain ids wallet.rpc.getChainId may report (mainnet, ghostnet).
ChainIds == {"NetXdQprcVkpaWU", "NetXnHfVqm9iesp"}

\* The errors of lines 210-214 and of a failed parseUnits.
LoadWalletError == [kind |-> "HttpException", status |-> 500,
                    code |-> "LOAD_WALLET_ERROR_CODE"]
ParseUnitsError == [kind |-> "EthersError", call |-> "parseUnits"]

\* Mutant of ApprovalCall: every token that is not 'fa1.2' is handled as an
\* operator-style token.
ApprovalCallElseOperator(token, address, spender, amount) ==
    IF token.standard = "fa1.2"
        THEN [entrypoint |-> "approve", params |-> [spender |-> spender, value |-> amount]]
        ELSE [entrypoint |-> "update_operators",
              params |-> [add_operator |-> [owner |-> address, operator |-> spender,
                                            token_id |-> token.tokenId]]]

\* Mutant of ApprovalCall: the operator grant carries the amount too.
ApprovalCallWithValue(token, address, spender, amount) ==
    IF token.standard = "fa1.2"
        THEN [entrypoint |-> "approve", params |-> [spender |-> spender, value |-> amount]]
    ELSE IF token.standard = "fa2"
        THEN [entrypoint |-> "update_operators",
              params |-> [add_operator |-> [owner |-> address, operator |-> spender,
                                            token_id |-> token.tokenId,
                                            value |-> amount]]]
    ELSE Throws

\* Lines 234-254: the entry point invoked and its parameters, by the
\* token's standard; any other standard throws.
ApprovalCall(token, address, spender, amount) ==
    IF token.standard = "fa1.2"
        THEN [entrypoint |-> "approve", params |-> [spender |-> spender, value |-> amount]]
    ELSE IF token.standard = "fa2"
        THEN [entrypoint |-> "update_operators",
              params |-> [add_operator |-> [owner |-> address, operator |-> spender,
                                            token_id |-> token.tokenId]]]
    ELSE Throws

InitApprove ==
    /\ op = "approve"
    /\ pc = "start"
    /\ req \in [address : {"tz1owner"}, spender : {"tz1other"}, token : Symbols,
                amount : {Undefined} \cup AmountStrings]
    /\ registry \in Registries({0, 6})
    /\ tokens = Null /\ balances = Null /\ approvals = Null /\ pending = {}
    /\ mempool = Null /\ finalized = {} /\ blockHeight = 0
    /\ currentBlock = Null /\ pendingTxs = Null /\ txStatus = 0 /\ txData = Null
    /\ wallet = Null /\ fullToken = Null /\ amountBigNumber = Null /\ contract = Null
    /\ approvalOperation = Null
    /\ calls = <<>>
    /\ response = Null
    /\ fault = Null

\* approve up to its first await: tezos.getWallet(address) is called.
ApproveBegin ==
    /\ op = "approve" /\ pc = "start"
    /\ calls' = Append(calls, Issue("getWallet", req.token, [address |-> req.address]))
    /\ pc' = "getWallet"
    /\ UNCHANGED <<op, req, chainVars, pollVars, aggVars, approveVars, response, fault>>

\* Mutant of ApproveGetWalletRejects: the token is looked up before the
\* wallet failure is reported.
ApproveGetWalletRejectsTokenFirst ==
    /\ op = "approve" /\ pc = "getWallet"
    /\ calls' = Append(calls, Settle("getWallet", req.token, Rejected))
    /\ fault' = IF GetTokenForSymbol(req.token) = Undefined THEN TokenNotSupported
                ELSE LoadWalletError
    /\ pc' = "done"
    /\ UNCHANGED <<op, req, chainVars, pollVars, aggVars, approveVars, response>>

\* getWallet rejects: the catch of lines 209-215 throws the wallet-load
\* fault.
ApproveGetWalletRejects ==
    /\ op = "approve" /\ pc = "getWallet"
    /\ calls' = Append(calls, Settle("getWallet", req.token, Rejected))
    /\ fault' = LoadWalletError
    /\ pc' = "done"
    /\ UNCHANGED <<op, req, chainVars, pollVars, aggVars, approveVars, response>>

\* getWallet resolves: the token is looked up (unknown: token-not-supported),
\* the amount is scaled (parseUnits may throw), wallet.contract.at is called.
ApproveGetWalletResolves ==
    /\ op = "approve" /\ pc = "getWallet"
    /\ wallet' = [kind |-> "TezosToolkit", address |-> req.address]
    /\ LET token == GetTokenForSymbol(req.token)
           settled == Append(calls, Settle("getWallet", req.token, wallet'))
       IN  /\ fullToken' = token
           /\ IF token = Undefined
                THEN /\ fault' = TokenNotSupported
                     /\ amountBigNumber' = amountBigNumber
                     /\ calls' = settled
                     /\ pc' = "done"
              ELSE IF AmountBigNumber(req.amount, token.decimals) = Throws
                THEN /\ fault' = ParseUnitsError
                     /\ amountBigNumber' = amountBigNumber
                     /\ calls' = settled
                     /\ pc' = "done"
              ELSE   /\ fault' = fault
                     /\ amountBigNumber' = AmountBigNumber(req.amount, token.decimals)
                     /\ calls' = Append(settled, Issue("contract.at", req.token,
                                                       [address |-> token.address]))
                     /\ pc' = "contract.at"
    /\ UNCHANGED <<op, req, chainVars, pollVars, aggVars, contract, approvalOperation,
                   response>>

\* wallet.contract.at resolves: the entry point of the token's standard is
\* invoked and sent; any other standard throws token-not-supported.
ApproveContractResolves ==
    /\ op = "approve" /\ pc = "contract.at"
    /\ contract' = [kind |-> "ContractAbstraction", address |-> fullToken.address]
    /\ LET call == ApprovalCall(fullToken, req.address, req.spender, amountBigNumber)
           settled == Append(calls, Settle("contract.at", req.token, contract'))
       IN  IF call = Throws
             THEN /\ fault' = TokenNotSupported
                  /\ calls' = settled
                  /\ pc' = "done"
             ELSE /\ fault' = fault
                  /\ calls' = Append(settled, Issue("send", req.token, call))
                  /\ pc' = "send"
    /\ UNCHANGED <<op, req, chainVars, pollVars, aggVars, wallet, fullToken,
                   amountBigNumber, approvalOperation, response>>

\* send resolves with the operation: with a result entry the chain id is
\* fetched, without one token-not-supported is thrown.
ApproveSendResolves ==
    /\ op = "approve" /\ pc = "send"
    /\ \E results \in SeqsUpTo(ResultEntries, MaxResults) :
        /\ approvalOperation' = [hash |-> "oo1", operationResults |-> results]
        /\ LET settled == Append(calls, Settle("send", req.token, approvalOperation'))
           IN  IF Len(results) > 0
                 THEN /\ calls' = Append(settled, Issue("getChainId", req.token, Null))
                      /\ fault' = fault
                      /\ pc' = "getChainId"
                 ELSE /\ calls' = settled
                      /\ fault' = TokenNotSupported
                      /\ pc' = "done"
    /\ UNCHANGED <<op, req, chainVars, pollVars, aggVars, wallet, fullToken,
                   amountBigNumber, contract, response>>

\* Mutant of ApproveGetChainIdResolves: the response is built from the last
\* result entry.
ApproveGetChainIdResolvesLastEntry ==
    /\ op = "approve" /\ pc = "getChainId"
    /\ \E chainId \in ChainIds :
        LET last == approvalOperation.operationResults[Len(approvalOperation.operationResults)]
        IN  /\ response' =
                 [kind |-> "ApproveResponse",
                  tokenAddress |-> fullToken.address,
                  spender |-> req.spender,
                  amount |-> BigNumberWithDecimalToStr(amountBigNumber, fullToken.decimals),
                  nonce |-> ParseInt(last.counter),
                  approval |-> ToTezosTransaction(approvalOperation.hash, last, chainId)]
            /\ calls' = Append(calls, Settle("getChainId", req.token,
                                              [kind |-> "chainId", id |-> chainId]))
    /\ pc' = "done"
    /\ UNCHANGED <<op, req, chainVars, pollVars, aggVars, approveVars, fault>>

\* wallet.rpc.getChainId resolves: the response is returned.
ApproveGetChainIdResolves ==
    /\ op = "approve" /\ pc = "getChainId"
    /\ \E chainId \in ChainIds :
        LET first == approvalOperation.operationResults[1]
        IN  /\ response' =
                 [kind |-> "ApproveResponse",
                  tokenAddress |-> fullToken.address,
                  spender |-> req.spender,
                  amount |-> BigNumberWithDecimalToStr(amountBigNumber, fullToken.decimals),
                  nonce |-> ParseInt(first.counter),
                  approval |-> ToTezosTransaction(approvalOperation.hash, first, chainId)]
            /\ calls' = Append(calls, Settle("getChainId", req.token,
                                              [kind |-> "chainId", id |-> chainId]))
    /\ pc' = "done"
    /\ UNCHANGED <<op, req, chainVars, pollVars, aggVars, approveVars, fault>>

\* contract.at, send or getChainId rejects: nothing catches it, the
\* rejection is thrown to the caller.
ApproveClientRejects ==
    /\ op = "approve" /\ pc \in {"contract.at", "send", "getChainId"}
    /\ calls' = Append(calls, Settle(pc, req.token, Rejected))
    /\ fault' = ClientError(pc)
    /\ pc' = "done"
    /\ UNCHANGED <<op, req, chainVars, pollVars, aggVars, approveVars, response>>

NextApprove ==
    \/ ApproveBegin
    \/ ApproveGetWalletRejects
    \/ ApproveGetWalletResolves
    \/ ApproveContractResolves
    \/ ApproveSendResolves
    \/ ApproveGetChainIdResolves
    \/ ApproveClientRejects

SpecApprove == InitApprove /\ [][NextApprove]_vars

\* ----------------------------------------------------- claims on approve
\* The log positions at which approve issues the given call.
ApproveIssues(call) ==
    {i \in DOMAIN calls : calls[i].phase = "issue" /\ calls[i].call = call}

\* The given call of approve has settled with a rejection; without one.
ApproveRejected(call) ==
    \E i \in DOMAIN calls :
        calls[i].phase = "settle" /\ calls[i].call = call /\ calls[i].result = Rejected
ApproveResolved(call) ==
    \E i \in DOMAIN calls :
        calls[i].phase = "settle" /\ calls[i].call = call /\ calls[i].result # Rejected

\* The requested token is unknown to the registry, or its standard is
\* neither 'fa1.2' nor 'fa2'.
Unapprovable ==
    \/ registry[req.token] = Undefined
    \/ registry[req.token].standard \notin {"fa1.2", "fa2"}

\* The amount of the request has more fraction digits than the token has
\* decimals: it cannot be scaled.
AmountUnscalable ==
    /\ req.amount # Undefined
    /\ req.amount.digits > registry[req.token].decimals

\* C8: approve fault precedence.  Once loading the wallet has failed,
\* approve has ended with the wallet-load fault, not the token-not-supported
\* one, whatever the token is; it has returned nothing, holds no registry
\* lookup result and no contract, and has issued no call after getWallet.
C8_WalletFaultPrecedence ==
    (op = "approve" /\ ApproveRejected("getWallet")) =>
        /\ pc = "done"
        /\ fault = LoadWalletError /\ fault # TokenNotSupported
        /\ response = Null
        /\ fullToken = Null /\ contract = Null /\ approvalOperation = Null
        /\ ApproveIssues("contract.at") = {}
        /\ ApproveIssues("send") = {}
        /\ ApproveIssues("getChainId") = {}

\* C8 witness: the wallet failed to load for a token the registry does not
\* know.
C8_Witness ==
    /\ op = "approve" /\ ApproveRejected("getWallet")
    /\ registry[req.token] = Undefined
    /\ fault = LoadWalletError

\* C9, as claimed: with the wallet loaded and the token unknown or of an
\* unrecognized standard, approve always ends with the token-not-supported
\* fault, having sent nothing and fetched no chain id.
C9_AlwaysTokenNotSupported ==
    (op = "approve" /\ pc = "done" /\ ApproveResolved("getWallet") /\ Unapprovable) =>
        /\ fault = TokenNotSupported
        /\ ApproveIssues("send") = {}
        /\ ApproveIssues("getChainId") = {}

\* C9, amended: with the wallet loaded and the token unknown or of an
\* unrecognized standard, approve ends with a fault and no response, and
\* never sends an operation nor fetches the chain id.  The fault is
\* token-not-supported for an unknown symbol; for an unrecognized standard
\* it is token-not-supported once the amount has been scaled and the
\* contract resolved, and otherwise the error of the step that failed
\* (parseUnits on an amount with too many fraction digits, or contract.at).
C9_RejectsUnapprovable ==
    (op = "approve" /\ ApproveResolved("getWallet") /\ Unapprovable) =>
        /\ ApproveIssues("send") = {}
        /\ ApproveIssues("getChainId") = {}
        /\ response = Null
        /\ pc = "done" =>
              IF registry[req.token] = Undefined THEN fault = TokenNotSupported
              ELSE IF AmountUnscalable THEN fault = ParseUnitsError
              ELSE IF ApproveRejected("contract.at") THEN fault = ClientError("contract.at")
              ELSE fault = TokenNotSupported

\* C9 witness: the wallet loaded, the token has an unrecognized standard,
\* its contract was resolved and approve threw token-not-supported.
C9_Witness ==
    /\ op = "approve" /\ pc = "done" /\ ApproveResolved("getWallet")
    /\ registry[req.token] # Undefined
    /\ registry[req.token].standard = "other"
    /\ contract # Null
    /\ fault = TokenNotSupported

\* The scaled amount of the request: amount * 10^decimals, or 2^256 - 1
\* when no amount is given.
ExpectedScaled ==
    LET d == registry[req.token].decimals
    IN  IF req.amount = Undefined THEN MaxUint256
        ELSE BigNumber(req.amount.int * (10 ^ d)
                       + req.amount.frac * (10 ^ (d - req.amount.digits)))

\* C10: approve operation shape by standard.  Whatever approve sends is,
\* for an 'fa2' token, update_operators with add_operator = {owner = the
\* request's address, operator = spender, token_id = the token's tokenId}
\* and nothing else (no amount), for every amount given or omitted; for an
\* 'fa1.2' token it is approve with {spender, value = scaled amount}.  At
\* most one operation is sent per call, and exactly one when a response is
\* returned.
C10_OperationShape ==
    op = "approve" =>
        /\ Cardinality(ApproveIssues("send")) <= 1
        /\ response # Null => Cardinality(ApproveIssues("send")) = 1
        /\ \A i \in ApproveIssues("send") :
              /\ registry[req.token] # Undefined
              /\ registry[req.token].standard \in {"fa1.2", "fa2"}
              /\ registry[req.token].standard = "fa2" =>
                    /\ calls[i].args.entrypoint = "update_operators"
                    /\ calls[i].args.params =
                          [add_operator |->
                              [owner |-> req.address, operator |-> req.spender,
                               token_id |-> registry[req.token].tokenId]]
              /\ registry[req.token].standard = "fa1.2" =>
                    /\ calls[i].args.entrypoint = "approve"
                    /\ calls[i].args.params =
                          [spender |-> req.spender, value |-> ExpectedScaled]

\* C10 witness: a response to an approval of an 'fa2' token with the
\* amount "1.5" given.
C10_Witness ==
    /\ op = "approve" /\ pc = "done" /\ response # Null
    /\ registry[req.token].standard = "fa2"
    /\ req.amount = DecimalString(1, 5, 1)
    /\ ApproveIssues("send") # {}

\* 2^256 = 16^64 by its hexadecimal digits, lowest first: 64 zeros and a 1.
TwoTo256Hex == [i \in 1..65 |-> IF i = 65 THEN 1 ELSE 0]

\* C11: approve amount scaling.  Once approve has scaled the amount: a
\* given amount string a (int.frac with `digits` fraction digits) yields
\* the integer v with v = a * 10^decimals, stated without division as
\* v * 10^digits = (int * 10^digits + frac) * 10^decimals; an omitted amount
\* yields constants.MaxUint256, whose successor is 2^256.  For an 'fa1.2'
\* token the value sent with approve is this scaled amount.
C11_AmountScaling ==
    (op = "approve" /\ amountBigNumber # Null) =>
        /\ IF req.amount = Undefined
             THEN /\ amountBigNumber = MaxUint256
                  /\ HexSucc(MaxUint256Hex) = TwoTo256Hex
             ELSE /\ amountBigNumber.kind = "BigNumber"
                  /\ amountBigNumber.value * (10 ^ req.amount.digits) =
                        (req.amount.int * (10 ^ req.amount.digits) + req.amount.frac)
                        * (10 ^ registry[req.token].decimals)
        /\ \A i \in ApproveIssues("send") :
              registry[req.token].standard = "fa1.2" =>
                  calls[i].args.params.value = amountBigNumber

\* C11 witness: amount "1.5" for an 'fa1.2' token of 6 decimals is sent as
\* the value 1500000.
C11_Witness ==
    /\ op = "approve" /\ req.amount = DecimalString(1, 5, 1)
    /\ registry[req.token] # Undefined
    /\ registry[req.token].decimals = 6 /\ registry[req.token].standard = "fa1.2"
    /\ amountBigNumber = BigNumber(1500000)
    /\ \E i \in ApproveIssues("send") : calls[i].args.params.value = BigNumber(1500000)

\* The chain id the chain-id fetch of this approve call resolved with.
FetchedChainId ==
    LET i == CHOOSE i \in DOMAIN calls :
                 calls[i].phase = "settle" /\ calls[i].call = "getChainId"
    IN  calls[i].result.id

\* C12: approve empty-result fault.  Once the submitted operation has come
\* back: with no result entries approve has ended with the
\* token-not-supported fault, without a response and without a chain-id
\* fetch; with at least one entry the chain id is fetched once, and the
\* response approve returns when that fetch resolves has the counter of the
\* first entry as nonce and the normalization of the first entry, with the
\* operation hash and the fetched chain id, as approval.
C12_EmptyOperationResults ==
    (op = "approve" /\ approvalOperation # Null) =>
        LET results == approvalOperation.operationResults
        IN  IF Len(results) = 0
              THEN /\ pc = "done" /\ fault = TokenNotSupported /\ response = Null
                   /\ ApproveIssues("getChainId") = {}
              ELSE /\ Cardinality(ApproveIssues("getChainId")) = 1
                   /\ fault # TokenNotSupported
                   /\ (pc = "done" /\ ~ApproveRejected("getChainId")) => response # Null
                   /\ response # Null =>
                        /\ fault = Null
                        /\ response.nonce = [kind |-> "number", digits |-> results[1].counter]
                        /\ response.approval =
                              ToTezosTransaction(approvalOperation.hash, results[1],
                                                 FetchedChainId)
                        /\ response.approval.hash = approvalOperation.hash
                        /\ response.approval.chainId = FetchedChainId
                        /\ response.approval.from = results[1].source
                        /\ response.approval.to = results[1].destination

\* C12 witness: a response built from an operation with two result entries
\* of different counters.
C12_Witness ==
    /\ op = "approve" /\ response # Null
    /\ Len(approvalOperation.operationResults) = 2
    /\ approvalOperation.operationResults[1].counter
         # approvalOperation.operationResults[2].counter

\* ---- toTezosTransaction on its own ----

\* The limits an operation entry may carry, as digit strings: 0, 007, 1500,
\* 2^53 - 1, 2^53, 2^53 + 1 and 2^54 + 2; 0, 1, 2, 67 and 2^53 + 1.
GasLimits ==
    {<<0>>, <<0, 0, 7>>, <<1, 5, 0, 0>>,
     <<9, 0, 0, 7, 1, 9, 9, 2, 5, 4, 7, 4, 0, 9, 9, 1>>,
     <<9, 0, 0, 7, 1, 9, 9, 2, 5, 4, 7, 4, 0, 9, 9, 2>>,
     <<9, 0, 0, 7, 1, 9, 9, 2, 5, 4, 7, 4, 0, 9, 9, 3>>,
     <<1, 8, 0, 1, 4, 3, 9, 8, 5, 0, 9, 4, 8, 1, 9, 8, 6>>}
StorageLimits ==
    {<<0>>, <<1>>, <<2>>, <<6, 7>>,
     <<9, 0, 0, 7, 1, 9, 9, 2, 5, 4, 7, 4, 0, 9, 9, 3>>}

\* The operation entries handed to toTezosTransaction.
Transactions ==
    [source : {"tz1owner"}, destination : {"KT1"}, counter : {<<7>>, <<1, 2>>},
     gas_limit : GasLimits, storage_limit : StorageLimits,
     amount : {<<0>>, <<1, 5, 0>>}, parameters : {[kind |-> "parameters"]}]

InitNormalizer ==
    /\ op = "toTezosTransaction" /\ pc = "start"
    /\ req \in [hash : {"oo1"}, transaction : Transactions, chainId : ChainIds]
    /\ mempool = Null /\ finalized = {} /\ blockHeight = 0
    /\ currentBlock = Null /\ pendingTxs = Null /\ txStatus = 0 /\ txData = Null
    /\ registry = Null /\ tokens = Null /\ balances = Null /\ approvals = Null
    /\ pending = {}
    /\ wallet = Null /\ fullToken = Null /\ amountBigNumber = Null
    /\ contract = Null /\ approvalOperation = Null
    /\ calls = <<>> /\ response = Null /\ fault = Null

\* toTezosTransaction(hash, transaction, chainId) returns.
NormalizerReturn ==
    /\ op = "toTezosTransaction" /\ pc = "start"
    /\ response' = ToTezosTransaction(req.hash, req.transaction, req.chainId)
    /\ pc' = "done"
    /\ UNCHANGED <<op, req, chainVars, pollVars, aggVars, approveVars, calls, fault>>

NextNormalizer ==
    NormalizerReturn

SpecNormalizer == InitNormalizer /\ [][NextNormalizer]_vars

\* gas_limit + storage_limit of the normalized entry as an exact integer.
ExactLimitSum ==
    Add(Strip(req.transaction.gas_limit), Strip(req.transaction.storage_limit))

\* C13 as stated: for every non-negative integer gas_limit and
\* storage_limit the gasLimit of the normalized transaction is the decimal
\* string of gas_limit + storage_limit, value is the source amount and both
\* fee fields are null.
C13_GasLimitIsExactSum ==
    (op = "toTezosTransaction" /\ pc = "done") =>
        /\ response.gasLimit = ExactLimitSum
        /\ response.value = req.transaction.amount
        /\ response.maxFeePerGas = Null /\ response.maxPriorityFeePerGas = Null

\* C13, amended: the gasLimit is the decimal string of gas_limit +
\* storage_limit whenever that sum is at most 2^53; for every input value
\* is the source amount and both fee fields are null.
C13_GasLimitUpTo2To53 ==
    (op = "toTezosTransaction" /\ pc = "done") =>
        /\ ~Less(TwoTo53, ExactLimitSum) => response.gasLimit = ExactLimitSum
        /\ response.value = req.transaction.amount
        /\ response.maxFeePerGas = Null /\ response.maxPriorityFeePerGas = Null

\* C13 witness: gas_limit 2^53 - 1 and storage_limit 1 are normalized to the
\* gasLimit 2^53.
C13_Witness ==
    /\ op = "toTezosTransaction" /\ pc = "done"
    /\ req.transaction.gas_limit = <<9, 0, 0, 7, 1, 9, 9, 2, 5, 4, 7, 4, 0, 9, 9, 1>>
    /\ req.transaction.storage_limit = <<1>>
    /\ response.gasLimit = TwoTo53

\* ---- The routes ----

Routes == {"/nextNonce", "/nonce", "/balances", "/poll", "/allowances", "/approve"}

\* The controller each route delegates to.
ControllerOf(route) ==
    CASE route \in {"/nextNonce", "/nonce"} -> "nonce"
      [] route = "/balances" -> "balances"
      [] route = "/poll" -> "poll"
      [] route = "/allowances" -> "allowances"
      [] OTHER -> "approve"

\* The routes whose handler calls a validateTezos...Request on the body:
\* all but /poll.
CallsValidator(route) == route # "/poll"

\* The chain name a route hands to getChain: /balances and /poll name
\* 'tezos', the others pass req.body.chain.
ChainArgument(route, body) ==
    IF route \in {"/balances", "/poll"} THEN "tezos" ELSE body.chain

\* Request bodies: `wellFormed` tells whether the body has the shape the
\* route's request type asks for; a well-formed body names the chain tezos.
Bodies ==
    {b \in [chain : {"tezos", "ethereum"}, network : {"mainnet", "ghostnet"},
            wellFormed : BOOLEAN] : b.wellFormed => b.chain = "tezos"}

\* A request validator throws on a body that is not well-formed.
ValidatorThrows(body) == ~body.wellFormed
ValidationError == [kind |-> "HttpException", status |-> 404, code |-> "validation"]

\* What a controller may resolve with.
ControllerResults(route) ==
    IF ControllerOf(route) = "nonce"
        THEN [kind : {"NonceResponse"}, nonce : {0, 41}]
        ELSE [kind : {"Response"}, of : {ControllerOf(route)}]

InitRoutes ==
    /\ op = "route" /\ pc = "start"
    /\ req \in [route : Routes, body : Bodies]
    /\ mempool = Null /\ finalized = {} /\ blockHeight = 0
    /\ currentBlock = Null /\ pendingTxs = Null /\ txStatus = 0 /\ txData = Null
    /\ registry = Null /\ tokens = Null /\ balances = Null /\ approvals = Null
    /\ pending = {}
    /\ wallet = Null /\ fullToken = Null /\ amountBigNumber = Null
    /\ contract = Null /\ approvalOperation = Null
    /\ calls = <<>> /\ response = Null /\ fault = Null

\* The handler runs up to its first await: the validator, where the route
\* calls one, then getChain.
RouteBegin ==
    /\ op = "route" /\ pc = "start"
    /\ LET validated == IF CallsValidator(req.route)
                          THEN <<Issue("validate", req.route, req.body)>>
                          ELSE <<>>
           getChain == Issue("getChain", req.route,
                             [chain |-> ChainArgument(req.route, req.body),
                              network |-> req.body.network])
       IN  IF CallsValidator(req.route) /\ ValidatorThrows(req.body)
             THEN /\ calls' = validated
                  /\ fault' = ValidationError
                  /\ pc' = "done"
             ELSE /\ calls' = Append(validated, getChain)
                  /\ fault' = fault
                  /\ pc' = "getChain"
    /\ UNCHANGED <<op, req, chainVars, pollVars, aggVars, approveVars, response>>

\* getChain resolves: the controller is called with the client and the body.
RouteGetChainResolves ==
    /\ op = "route" /\ pc = "getChain"
    /\ calls' = Append(calls, Issue(ControllerOf(req.route), req.route, req.body))
    /\ pc' = "controller"
    /\ UNCHANGED <<op, req, chainVars, pollVars, aggVars, approveVars, response, fault>>

\* The controller resolves: its result is the response, with the nonce
\* raised by one on /nextNonce.
RouteControllerResolves ==
    /\ op = "route" /\ pc = "controller"
    /\ \E result \in ControllerResults(req.route) :
        response' = IF req.route = "/nextNonce"
                      THEN [result EXCEPT !.nonce = result.nonce + 1]
                      ELSE result
    /\ pc' = "done"
    /\ UNCHANGED <<op, req, chainVars, pollVars, aggVars, approveVars, calls, fault>>

\* getChain or the controller rejects: asyncHandler hands the error on.
RouteRejects ==
    /\ op = "route" /\ pc \in {"getChain", "controller"}
    /\ fault' = ClientError(pc)
    /\ pc' = "done"
    /\ UNCHANGED <<op, req, chainVars, pollVars, aggVars, approveVars, calls, response>>

NextRoutes ==
    \/ RouteBegin
    \/ RouteGetChainResolves
    \/ RouteControllerResolves
    \/ RouteRejects

SpecRoutes == InitRoutes /\ [][NextRoutes]_vars

\* The names of the five controllers.
Controllers == {"nonce", "balances", "poll", "allowances", "approve"}

\* C14: HTTP pipeline order.  Whenever a route has called a controller, the
\* body had been handed to the validator first and passed it, getChain had
\* then been called for the request's chain and network, and the controller
\* is the third call and the one of the route.
C14_PipelineOrder ==
    op = "route" =>
        \A i \in DOMAIN calls :
            calls[i].call \in Controllers =>
                /\ i = 3
                /\ calls[1].call = "validate" /\ calls[1].args = req.body
                /\ ~ValidatorThrows(req.body)
                /\ calls[2].call = "getChain"
                /\ calls[2].args = [chain |-> req.body.chain, network |-> req.body.network]
                /\ calls[i].call = ControllerOf(req.route)

\* How often poll has issued the given chain-client call: the calls that
\* have settled and the one poll is waiting for.
PollIssued(call) ==
    Cardinality({i \in DOMAIN calls : calls[i].call = call})
    + (IF pc = call THEN 1 ELSE 0)

\* C15: poll lookup gating.  Within one poll call getTransaction is issued
\* at most once, and only once the snapshot has been fetched and holds the
\* hash in none of its five partitions; when a partition holds the hash no
\* lookup is issued.  The block height is fetched exactly once and first,
\* the snapshot at most once and second, and exactly once in a call that
\* returns a response.
C15_LookupGating ==
    op = "poll" =>
        /\ PollIssued("getTransaction") <= 1
        /\ PollIssued("getTransaction") = 1 =>
              /\ pendingTxs # Null
              /\ \E i \in DOMAIN calls :
                    calls[i].call = "getPendingTransactions" /\ calls[i].result = pendingTxs
              /\ \A part \in PartitionNames : ~InSnapshot(part)
        /\ (pendingTxs # Null /\ \E part \in PartitionNames : InSnapshot(part)) =>
              PollIssued("getTransaction") = 0
        /\ PollIssued("getCurrentBlockNumber") = 1
        /\ PollIssued("getPendingTransactions") <= 1
        /\ PollReturned => PollIssued("getPendingTransactions") = 1
        /\ \A i \in DOMAIN calls :
              /\ calls[i].call = "getCurrentBlockNumber" <=> i = 1
              /\ calls[i].call = "getPendingTransactions" <=> i = 2
              /\ calls[i].call = "getTransaction" <=> i = 3

\* C15 witness: a response for a hash that the snapshot holds in
\* branch_delayed and the finalized chain holds too, returned after two
\* client calls and no lookup.
C15_Witness ==
    /\ PollReturned
    /\ InSnapshot("branch_delayed") /\ ~InSnapshot("applied")
    /\ req.txHash \in finalized
    /\ Len(calls) = 2
    /\ PollIssued("getTransaction") = 0

\* ---- balances and allowances together ----

InitAggregation ==
    InitBalances \/ InitAllowances

NextAggregation ==
    \/ NextBalances
    \/ NextAllowances

SpecAggregation == InitAggregation /\ [][NextAggregation]_vars

\* The per-token fetches of the two aggregators.
TokenFetches == {"getTokenBalance", "getTokenAllowance"}

\* The log positions at which a per-token fetch is issued; at which one
\* resolves, its callback then writing the result into the mapping.
TokenIssues ==
    {i \in DOMAIN calls : calls[i].phase = "issue" /\ calls[i].call \in TokenFetches}
TokenResolutions ==
    {i \in DOMAIN calls :
        calls[i].phase = "settle" /\ calls[i].call \in TokenFetches
        /\ calls[i].result # Rejected}

\* The mapping a response of balances or allowances carries.
ResponseMapping ==
    IF op = "balances" THEN response.balances ELSE response.approvals

\* C16: aggregation is interleaving-independent.  In a balances or
\* allowances call no per-token fetch is issued after a per-token result
\* has been written, and in whatever order the fetches complete the mapping
\* returned holds, for every token fetched, the string of the value its own
\* fetch resolved with, each fetch having resolved exactly once.
C16_InterleavingIndependent ==
    op \in {"balances", "allowances"} =>
        /\ \A i \in TokenResolutions : \A j \in TokenIssues : j < i
        /\ response # Null =>
              \A j \in TokenIssues :
                 LET own == {i \in TokenResolutions : calls[i].symbol = calls[j].symbol}
                 IN  /\ Cardinality(own) = 1
                     /\ calls[j].symbol \in DOMAIN ResponseMapping
                     /\ \A i \in own :
                           ResponseMapping[calls[j].symbol] =
                               TokenValueToString(calls[i].result)

\* C16 witness: a balances response after two token fetches that completed
\* in the reverse order of their issue, with different values.
C16_Witness ==
    /\ op = "balances" /\ response # Null
    /\ \E j1, j2 \in TokenIssues : \E i1, i2 \in TokenResolutions :
          /\ j1 < j2 /\ i2 < i1
          /\ calls[i1].symbol = calls[j1].symbol
          /\ calls[i2].symbol = calls[j2].symbol
          /\ calls[i1].result # calls[i2].result

\* C18: no per-token fault isolation.  Once a chain-client fetch of a
\* balances or allowances call has rejected (native balance, token balance
\* or token allowance), the call has ended by throwing that fetch's error:
\* no response record exists, neither a partial mapping nor the
\* token-not-supported fault in place of the client's error.
C18_NoFaultIsolation ==
    op \in {"balances", "allowances"} =>
        \A i \in DOMAIN calls :
            calls[i].result = Rejected =>
                /\ pc = "done"
                /\ response = Null
                /\ fault = ClientError(calls[i].call)
                /\ fault # TokenNotSupported

\* C18 witness: a token-balance fetch rejects after the native balance and
\* another token's balance have been stored; the call ends with the
\* client's error and without a response.
C18_Witness ==
    /\ op = "balances" /\ pc = "done"
    /\ nativeTokenSymbol \in DOMAIN balances
    /\ \E s \in DOMAIN balances : s # nativeTokenSymbol
    /\ \E i \in DOMAIN calls :
          calls[i].call = "getTokenBalance" /\ calls[i].result = Rejected
    /\ fault = ClientError("getTokenBalance") /\ response = Null

\* The native-balance fetch of a balances call has been issued and has not
\* settled.
NativeOutstanding ==
    /\ IssuedFor("getNativeBalance", nativeTokenSymbol) # {}
    /\ \A i \in DOMAIN calls :
          ~(calls[i].phase = "settle" /\ calls[i].call = "getNativeBalance")

\* C17: the native balance is fetched concurrently with the token balances.
\* In a balances call that requests the native symbol together with
\* resolvable tokens, while the native fetch is outstanding the fetch of
\* every such token has been issued too.
C17_NativeConcurrentWithTokens ==
    (op = "balances" /\ NativeOutstanding) =>
        \A k \in DOMAIN BalanceFetches(tokens) :
            IssuedFor("getTokenBalance", BalanceFetches(tokens)[k]) # {}

\* The log positions at which the native-balance fetch resolved.
NativeResolutions ==
    {i \in DOMAIN calls :
        calls[i].phase = "settle" /\ calls[i].call = "getNativeBalance"
        /\ calls[i].result # Rejected}

\* C19: native-asset handling in balances.  Once balances has run to its
\* first await: the native balance is fetched once if the native symbol
\* occurs in req.tokenSymbols and never otherwise, whatever the registry
\* holds for that symbol; it is stored under the native symbol exactly when
\* that fetch has resolved; getTokenBalance is never issued for the native
\* symbol; and a response holds the native key iff the symbol was
\* requested, with the string of the fetched native balance.
C19_NativeHandling ==
    (op = "balances" /\ pc # "start") =>
        /\ Cardinality(IssuedFor("getNativeBalance", nativeTokenSymbol)) =
              (IF Requested(nativeTokenSymbol) THEN 1 ELSE 0)
        /\ IssuedFor("getTokenBalance", nativeTokenSymbol) = {}
        /\ nativeTokenSymbol \in DOMAIN balances <=> NativeResolutions # {}
        /\ response # Null =>
              /\ nativeTokenSymbol \in DOMAIN response.balances
                    <=> Requested(nativeTokenSymbol)
              /\ \A i \in NativeResolutions :
                    response.balances[nativeTokenSymbol] =
                        TokenValueToString(calls[i].result)

\* C19 witness: a response with the native balance and a token balance of
\* another value, the registry holding a fetchable token under the native
\* symbol.
C19_Witness ==
    /\ op = "balances" /\ response # Null
    /\ Requested(nativeTokenSymbol)
    /\ Resolves(nativeTokenSymbol) /\ registry[nativeTokenSymbol].tokenId # Undefined
    /\ \E s \in DOMAIN response.balances :
          /\ s # nativeTokenSymbol
          /\ response.balances[s] # response.balances[nativeTokenSymbol]

\* ---- poll against a chain that progresses during the call ----

\* The most operations the progressing node holds pending at a time.
MaxLivePending == 1

\* The hashes of a partition, in order; the partition without its i-th entry.
PartitionHashes(m, part) == [i \in 1..Len(m[part]) |-> m[part][i].hash]
WithoutEntry(hs, i) == SubSeq(hs, 1, i - 1) \o SubSeq(hs, i + 1, Len(hs))

\* The given mempool with the hashes of one partition replaced.
WithPartition(m, part, hs) == [m EXCEPT ![part] = PartitionOf(part, hs)]

\* The mempool without any entry of hash h.
WithoutHash(m, h) ==
    [part \in PartitionNames |->
        PartitionOf(part, SelectSeq(PartitionHashes(m, part), LAMBDA x : x # h))]

\* The number of pending operations of a mempool.
PendingCount(m) ==
    Len(m.applied) + Len(m.branch_delayed) + Len(m.branch_refused)
    + Len(m.refused) + Len(m.unprocessed)

\* The hash is in one of the five partitions of m or in the finalized set f.
Present(h, m, f) ==
    \/ h \in f
    \/ \E part \in PartitionNames : \E i \in DOMAIN m[part] : m[part][i].hash = h

InitPollLive ==
    /\ op = "poll"
    /\ pc = "getCurrentBlockNumber"
    /\ req \in [txHash : Hashes]
    /\ mempool \in {[p \in PartitionNames |-> PartitionOf(p, HashesIn(p, arrivals))] :
                       arrivals \in SeqsUpTo(PartitionNames \X Hashes, MaxLivePending)}
    /\ finalized \in SUBSET Hashes
    /\ Present(req.txHash, mempool, finalized)
    /\ blockHeight \in {7}
    /\ currentBlock = Null
    /\ pendingTxs = Null
    /\ txStatus = 0
    /\ txData = Null
    /\ registry = Null /\ tokens = Null /\ balances = Null /\ approvals = Null
    /\ pending = {}
    /\ wallet = Null /\ fullToken = Null /\ amountBigNumber = Null /\ contract = Null
    /\ approvalOperation = Null
    /\ calls = <<>>
    /\ response = Null
    /\ fault = Null

\* While poll is suspended the node receives an operation and classifies it.
ChainArrives ==
    /\ op = "poll" /\ pc # "done"
    /\ PendingCount(mempool) < MaxLivePending
    /\ \E part \in PartitionNames, h \in Hashes :
          mempool' = WithPartition(mempool, part,
                                   Append(PartitionHashes(mempool, part), h))
    /\ UNCHANGED <<op, pc, req, finalized, blockHeight, pollVars, aggVars, approveVars,
                   calls, response, fault>>

\* The node moves a pending operation to another partition.
ChainReclassifies ==
    /\ op = "poll" /\ pc # "done"
    /\ \E from \in PartitionNames, to \in PartitionNames :
        \E i \in DOMAIN mempool[from] :
          /\ from # to
          /\ LET h == mempool[from][i].hash
                 removed == WithPartition(mempool, from,
                               WithoutEntry(PartitionHashes(mempool, from), i))
             IN  mempool' = WithPartition(removed, to,
                                          Append(PartitionHashes(removed, to), h))
    /\ UNCHANGED <<op, pc, req, finalized, blockHeight, pollVars, aggVars, approveVars,
                   calls, response, fault>>

\* The node drops a pending operation; the polled hash stays in the mempool
\* or in the chain.
ChainDrops ==
    /\ op = "poll" /\ pc # "done"
    /\ \E part \in PartitionNames : \E i \in DOMAIN mempool[part] :
          mempool' = WithPartition(mempool, part,
                                   WithoutEntry(PartitionHashes(mempool, part), i))
    /\ Present(req.txHash, mempool', finalized)
    /\ UNCHANGED <<op, pc, req, finalized, blockHeight, pollVars, aggVars, approveVars,
                   calls, response, fault>>

\* A block includes a pending operation: it enters the finalized chain for
\* good and leaves the mempool, and the chain grows by a block.
ChainIncludes ==
    /\ op = "poll" /\ pc # "done"
    /\ \E h \in Hashes \ finalized :
          /\ Present(h, mempool, {})
          /\ finalized' = finalized \cup {h}
          /\ mempool' = WithoutHash(mempool, h)
    /\ blockHeight' = blockHeight + 1
    /\ UNCHANGED <<op, pc, req, pollVars, aggVars, approveVars, calls, response, fault>>

NextPollLive ==
    \/ PollGetCurrentBlockNumber
    \/ PollGetPendingTransactions
    \/ PollGetTransaction
    \/ PollReturn
    \/ PollClientRejects
    \/ ChainArrives
    \/ ChainReclassifies
    \/ ChainDrops
    \/ ChainIncludes

SpecPollLive == InitPollLive /\ [][NextPollLive]_vars

\* C20: poll does not lose a transaction that moves from the mempool to the
\* chain during the call.  With a chain that progresses between poll's
\* three client calls, keeps what it has finalized and holds the polled hash
\* at every moment in a mempool partition or in the finalized chain, a
\* response of poll never has txStatus -1.
C20_NeverLost ==
    (op = "poll" /\ response # Null) =>
        /\ response.txStatus # -1
        /\ response.txStatus \in 1..5

\* C20 witness: the polled hash was included in a block after the block
\* height had been fetched and before the snapshot was taken; the snapshot
\* does not hold it and the response reports it with txStatus 1 and the
\* finalized operation.
C20_Witness ==
    /\ PollReturned
    /\ response.currentBlock = [kind |-> "number", value |-> 7]
    /\ blockHeight = 8 /\ finalized = {req.txHash}
    /\ \A part \in PartitionNames : ~InSnapshot(part)
    /\ response.txStatus = 1 /\ response.txData = FinalizedTx(req.txHash)

====
